---- MODULE Spec2Model ----
(***************************************************************************)
(* Model of the example programs of dlb:                                   *)
(*   example/c-multistage-with-configure/src/main.c  (configuration flag)  *)
(*   example/c/src/main.c                            (GTK application)     *)
(* and of the version print program, whose source is not part of the       *)
(* fragment and is modelled from its description.                          *)
(*                                                                         *)
(* Strings are TLA+ strings; "\n" is the line break.  The GTK toolkit is   *)
(* the environment of the GUI program: it emits "activate" any number of   *)
(* times while g_application_run is in progress, lets the user close       *)
(* windows, and returns any status.                                        *)
(***************************************************************************)
EXTENDS Integers, Sequences, FiniteSets, TLC

VARIABLES
    CONFIGURATION_HAS_MONOTONIC_CLOCK, \* Generated/Configuration.h (compile time)
    APPLICATION_VERSION,               \* Generated/Version.h (compile time)
    cfgArgc, cfgPc, cfgStdout, cfgExit, \* runs of the configuration-flag program
    verArgc, verPc, verStdout, verExit, \* runs of the version print program
    argc,        \* GUI program: runtime argument count handed to main
    pc,          \* GUI program: index of main's next statement in mainBody
    running,     \* GUI program: g_application_run called and not yet returned
    apc,         \* GUI program: 0, or index of activate's next statement
    app,         \* GUI program: the GtkApplication object
    handlers,    \* GUI program: <<signal, callback>> pairs connected on app
    windows,     \* GUI program: the windows created, in creation order
    status,      \* GUI program: main's local variable status
    exitCode,    \* GUI program: value returned by main
    log,         \* GUI program: history of the calls main has made
    nEmit,       \* GUI program: emissions of "activate" by the toolkit
    nActivate,   \* GUI program: invocations of activate
    useAfterFree, \* GUI program: app was used with reference count 0
    userActed    \* GUI program: the user has interacted with a window

cfgVars == <<CONFIGURATION_HAS_MONOTONIC_CLOCK, cfgArgc, cfgPc, cfgStdout, cfgExit>>
verVars == <<verArgc, verPc, verStdout, verExit>>
guiVars == <<argc, pc, running, apc, app, handlers, windows, status, exitCode,
             log, nEmit, nActivate, useAfterFree, userActed>>
vars == <<cfgVars, verVars, APPLICATION_VERSION, guiVars>>

(***************************************************************************)
(* Bounds                                                                  *)
(***************************************************************************)
NumRuns == 2
MaxArgc == 3
MaxEmit == 2
MaxStatus == 2

Runs == 1..NumRuns
FlagValues == {0, 1}
Versions == {"1.2.3", "0.9", "10.20.30-rc1"}
\* A value not yet produced, and a value produced.
None == <<>>
Some(v) == <<v>>

(***************************************************************************)
(* printf                                                                  *)
(***************************************************************************)
RECURSIVE printf(_, _)
printf(format, arg) ==
    IF format = <<>> THEN ""
    ELSE (IF Head(format) = "%s" THEN arg ELSE Head(format)) \o printf(Tail(format), arg)

(***************************************************************************)
(* Configuration-flag program                                              *)
(***************************************************************************)
message_swapped ==
    IF CONFIGURATION_HAS_MONOTONIC_CLOCK # 0
    THEN "what a pitty: have no monotonic clock"
    ELSE "have a monotonic clock!"

message ==
    IF CONFIGURATION_HAS_MONOTONIC_CLOCK # 0
    THEN "have a monotonic clock!"
    ELSE "what a pitty: have no monotonic clock"

cfg_printf_argc(r) ==
    /\ cfgPc[r] = "printf"
    /\ cfgStdout' = [cfgStdout EXCEPT ![r] =
            @ \o printf(<<"%s", "\n">>, IF cfgArgc[r] > 1 THEN "" ELSE message)]
    /\ cfgPc' = [cfgPc EXCEPT ![r] = "return"]
    /\ UNCHANGED <<CONFIGURATION_HAS_MONOTONIC_CLOCK, cfgArgc, cfgExit>>
    /\ UNCHANGED <<verVars, APPLICATION_VERSION, guiVars>>

cfg_printf(r) ==
    /\ cfgPc[r] = "printf"
    /\ cfgStdout' = [cfgStdout EXCEPT ![r] = @ \o printf(<<"%s", "\n">>, message)]
    /\ cfgPc' = [cfgPc EXCEPT ![r] = "return"]
    /\ UNCHANGED <<CONFIGURATION_HAS_MONOTONIC_CLOCK, cfgArgc, cfgExit>>
    /\ UNCHANGED <<verVars, APPLICATION_VERSION, guiVars>>

cfg_return(r) ==
    /\ cfgPc[r] = "return"
    /\ cfgExit' = [cfgExit EXCEPT ![r] = Some(0)]
    /\ cfgPc' = [cfgPc EXCEPT ![r] = "exited"]
    /\ UNCHANGED <<CONFIGURATION_HAS_MONOTONIC_CLOCK, cfgArgc, cfgStdout>>
    /\ UNCHANGED <<verVars, APPLICATION_VERSION, guiVars>>

(***************************************************************************)
(* Version print program                                                   *)
(***************************************************************************)
ver_printf_no_newline(r) ==
    /\ verPc[r] = "printf"
    /\ verStdout' = [verStdout EXCEPT ![r] = @ \o ("version: " \o APPLICATION_VERSION)]
    /\ verPc' = [verPc EXCEPT ![r] = "return"]
    /\ UNCHANGED <<verArgc, verExit>>
    /\ UNCHANGED <<cfgVars, APPLICATION_VERSION, guiVars>>

ver_printf(r) ==
    /\ verPc[r] = "printf"
    /\ verStdout' = [verStdout EXCEPT ![r] =
            @ \o (("version: " \o APPLICATION_VERSION) \o "\n")]
    /\ verPc' = [verPc EXCEPT ![r] = "return"]
    /\ UNCHANGED <<verArgc, verExit>>
    /\ UNCHANGED <<cfgVars, APPLICATION_VERSION, guiVars>>

ver_return(r) ==
    /\ verPc[r] = "return"
    /\ verExit' = [verExit EXCEPT ![r] = Some(0)]
    /\ verPc' = [verPc EXCEPT ![r] = "exited"]
    /\ UNCHANGED <<verArgc, verStdout>>
    /\ UNCHANGED <<cfgVars, APPLICATION_VERSION, guiVars>>

(***************************************************************************)
(* Initial states of the idle programs                                     *)
(***************************************************************************)
CfgIdle ==
    /\ cfgArgc = [r \in Runs |-> 1]
    /\ cfgPc = [r \in Runs |-> "printf"]
    /\ cfgStdout = [r \in Runs |-> ""]
    /\ cfgExit = [r \in Runs |-> None]

VerIdle ==
    /\ verArgc = [r \in Runs |-> 1]
    /\ verPc = [r \in Runs |-> "printf"]
    /\ verStdout = [r \in Runs |-> ""]
    /\ verExit = [r \in Runs |-> None]

GuiIdle ==
    /\ argc = 1
    /\ pc = 1
    /\ running = FALSE
    /\ apc = 0
    /\ app = [id |-> "", flags |-> 0, ref_count |-> 0]
    /\ handlers = {}
    /\ windows = <<>>
    /\ status = None
    /\ exitCode = None
    /\ log = <<>>
    /\ nEmit = 0
    /\ nActivate = 0
    /\ useAfterFree = FALSE
    /\ userActed = FALSE

(***************************************************************************)
(* Specifications of the console programs                                  *)
(***************************************************************************)
InitConfig ==
    /\ CONFIGURATION_HAS_MONOTONIC_CLOCK \in FlagValues
    /\ APPLICATION_VERSION = "1.2.3"
    /\ cfgArgc \in [Runs -> 1..MaxArgc]
    /\ cfgPc = [r \in Runs |-> "printf"]
    /\ cfgStdout = [r \in Runs |-> ""]
    /\ cfgExit = [r \in Runs |-> None]
    /\ VerIdle
    /\ GuiIdle

NextConfig ==
    \/ \E r \in Runs : cfg_printf(r)
    \/ \E r \in Runs : cfg_return(r)

SpecConfig == InitConfig /\ [][NextConfig]_vars

InitVersion ==
    /\ CONFIGURATION_HAS_MONOTONIC_CLOCK = 1
    /\ APPLICATION_VERSION \in Versions
    /\ CfgIdle
    /\ verArgc \in [Runs -> 1..MaxArgc]
    /\ verPc = [r \in Runs |-> "printf"]
    /\ verStdout = [r \in Runs |-> ""]
    /\ verExit = [r \in Runs |-> None]
    /\ GuiIdle

NextVersion ==
    \/ \E r \in Runs : ver_printf(r)
    \/ \E r \in Runs : ver_return(r)

SpecVersion == InitVersion /\ [][NextVersion]_vars

(***************************************************************************)
(* GTK application: toolkit calls                                          *)
(***************************************************************************)
G_APPLICATION_FLAGS_NONE == 0
DEFAULT_WIDTH == 200
DEFAULT_HEIGHT == 200

gtk_application_new(application_id, flags) ==
    [id |-> application_id, flags |-> flags, ref_count |-> 1]

g_signal_connect(instance_handlers, detailed_signal, c_handler) ==
    instance_handlers \cup {<<detailed_signal, c_handler>>}

g_object_unref(object) ==
    [object EXCEPT !.ref_count = IF @ > 0 THEN @ - 1 ELSE 0]

gtk_application_window_new(application) ==
    [application |-> application.id, title |-> "", width |-> -1, height |-> -1,
     visible |-> FALSE, destroyed |-> FALSE]

gtk_window_set_title(window, title) == [window EXCEPT !.title = title]

gtk_window_set_default_size(window, width, height) ==
    [window EXCEPT !.width = width, !.height = height]

gtk_widget_show_all(window) == [window EXCEPT !.visible = TRUE]

\* Every use of the application object after its last reference is gone is recorded.
Uses(object) == useAfterFree \/ object.ref_count = 0

(***************************************************************************)
(* GTK application: activate                                               *)
(***************************************************************************)
WindowTitleNoPrefix == APPLICATION_VERSION

WindowTitle == "Application " \o APPLICATION_VERSION

activateBodyShowFirst ==
    <<"gtk_widget_show_all", "gtk_window_set_title", "gtk_window_set_default_size">>

\* The statements of activate that follow the initialisation of its local
\* variable window, in program order.
activateBody ==
    <<"gtk_window_set_title", "gtk_window_set_default_size", "gtk_widget_show_all">>

\* The local variable window of the invocation in progress.
window == Len(windows)

ActivateNext == apc' = IF apc = Len(activateBody) THEN 0 ELSE apc + 1

ActivateFrame ==
    UNCHANGED <<argc, pc, running, app, handlers, status, exitCode, log, nEmit,
                nActivate, useAfterFree, userActed>>

activate_set_title ==
    /\ apc > 0
    /\ activateBody[apc] = "gtk_window_set_title"
    /\ windows' = [windows EXCEPT ![window] = gtk_window_set_title(@, WindowTitle)]
    /\ ActivateNext
    /\ ActivateFrame
    /\ UNCHANGED <<cfgVars, verVars, APPLICATION_VERSION>>

activate_set_default_size ==
    /\ apc > 0
    /\ activateBody[apc] = "gtk_window_set_default_size"
    /\ windows' = [windows EXCEPT ![window] =
            gtk_window_set_default_size(@, DEFAULT_WIDTH, DEFAULT_HEIGHT)]
    /\ ActivateNext
    /\ ActivateFrame
    /\ UNCHANGED <<cfgVars, verVars, APPLICATION_VERSION>>

activate_show_all ==
    /\ apc > 0
    /\ activateBody[apc] = "gtk_widget_show_all"
    /\ windows' = [windows EXCEPT ![window] = gtk_widget_show_all(@)]
    /\ ActivateNext
    /\ ActivateFrame
    /\ UNCHANGED <<cfgVars, verVars, APPLICATION_VERSION>>

(***************************************************************************)
(* GTK application: the toolkit while g_application_run is in progress     *)
(***************************************************************************)
\* The toolkit emits "activate" on the application object.  Emission calls the
\* connected handlers synchronously: activate is entered and its local variable
\* window is initialised with a new application window.
EmitActivate ==
    /\ running
    /\ apc = 0
    /\ nEmit < MaxEmit
    /\ nEmit' = nEmit + 1
    /\ IF <<"activate", "activate">> \in handlers
       THEN /\ nActivate' = nActivate + 1
            /\ windows' = Append(windows, gtk_application_window_new(app))
            /\ useAfterFree' = Uses(app)
            /\ apc' = 1
       ELSE UNCHANGED <<nActivate, windows, useAfterFree, apc>>
    /\ UNCHANGED <<argc, pc, running, app, handlers, status, exitCode, log, userActed>>
    /\ UNCHANGED <<cfgVars, verVars, APPLICATION_VERSION>>

\* The user closes a visible window; the toolkit destroys it.
UserClose(i) ==
    /\ running
    /\ apc = 0
    /\ windows[i].visible
    /\ windows' = [windows EXCEPT ![i] = [@ EXCEPT !.visible = FALSE, !.destroyed = TRUE]]
    /\ userActed' = TRUE
    /\ UNCHANGED <<argc, pc, running, apc, app, handlers, status, exitCode, log, nEmit,
                   nActivate, useAfterFree>>
    /\ UNCHANGED <<cfgVars, verVars, APPLICATION_VERSION>>

(***************************************************************************)
(* GTK application: main                                                   *)
(***************************************************************************)
mainBodyUnrefBeforeRun ==
    <<"gtk_application_new", "g_signal_connect", "g_object_unref", "g_application_run",
      "return">>

\* The statements of main in program order.
mainBody ==
    <<"gtk_application_new", "g_signal_connect", "g_application_run", "g_object_unref",
      "return">>

Exited == Len(mainBody) + 1

At(statement) == pc \in 1..Len(mainBody) /\ mainBody[pc] = statement

main_application_new_and_window ==
    /\ At("gtk_application_new")
    /\ app' = gtk_application_new("org.gtk.example", G_APPLICATION_FLAGS_NONE)
    /\ windows' = Append(windows, gtk_application_window_new(app'))
    /\ log' = Append(log, "gtk_application_new")
    /\ pc' = pc + 1
    /\ UNCHANGED <<argc, running, apc, handlers, status, exitCode, nEmit,
                   nActivate, useAfterFree, userActed>>
    /\ UNCHANGED <<cfgVars, verVars, APPLICATION_VERSION>>

main_application_new ==
    /\ At("gtk_application_new")
    /\ app' = gtk_application_new("org.gtk.example", G_APPLICATION_FLAGS_NONE)
    /\ log' = Append(log, "gtk_application_new")
    /\ pc' = pc + 1
    /\ UNCHANGED <<argc, running, apc, handlers, windows, status, exitCode, nEmit,
                   nActivate, useAfterFree, userActed>>
    /\ UNCHANGED <<cfgVars, verVars, APPLICATION_VERSION>>

main_signal_connect_startup ==
    /\ At("g_signal_connect")
    /\ handlers' = g_signal_connect(handlers, "startup", "activate")
    /\ useAfterFree' = Uses(app)
    /\ log' = Append(log, "g_signal_connect")
    /\ pc' = pc + 1
    /\ UNCHANGED <<argc, running, apc, app, windows, status, exitCode, nEmit,
                   nActivate, userActed>>
    /\ UNCHANGED <<cfgVars, verVars, APPLICATION_VERSION>>

main_signal_connect ==
    /\ At("g_signal_connect")
    /\ handlers' = g_signal_connect(handlers, "activate", "activate")
    /\ useAfterFree' = Uses(app)
    /\ log' = Append(log, "g_signal_connect")
    /\ pc' = pc + 1
    /\ UNCHANGED <<argc, running, apc, app, windows, status, exitCode, nEmit,
                   nActivate, userActed>>
    /\ UNCHANGED <<cfgVars, verVars, APPLICATION_VERSION>>

\* main calls g_application_run, which blocks.
main_application_run_call ==
    /\ At("g_application_run")
    /\ ~running
    /\ running' = TRUE
    /\ useAfterFree' = Uses(app)
    /\ log' = Append(log, "g_application_run:call")
    /\ UNCHANGED <<argc, pc, apc, app, handlers, windows, status, exitCode, nEmit,
                   nActivate, userActed>>
    /\ UNCHANGED <<cfgVars, verVars, APPLICATION_VERSION>>

\* g_application_run returns the toolkit's status, which main stores in status.
main_application_run_return ==
    /\ At("g_application_run")
    /\ running
    /\ apc = 0
    /\ \E s \in 0..MaxStatus : status' = Some(s)
    /\ running' = FALSE
    /\ log' = Append(log, "g_application_run:return")
    /\ pc' = pc + 1
    /\ UNCHANGED <<argc, apc, app, handlers, windows, exitCode, nEmit, nActivate,
                   useAfterFree, userActed>>
    /\ UNCHANGED <<cfgVars, verVars, APPLICATION_VERSION>>

main_object_unref ==
    /\ At("g_object_unref")
    /\ app' = g_object_unref(app)
    /\ useAfterFree' = Uses(app)
    /\ log' = Append(log, "g_object_unref")
    /\ pc' = pc + 1
    /\ UNCHANGED <<argc, running, apc, handlers, windows, status, exitCode, nEmit,
                   nActivate, userActed>>
    /\ UNCHANGED <<cfgVars, verVars, APPLICATION_VERSION>>

main_return_zero ==
    /\ At("return")
    /\ exitCode' = Some(0)
    /\ log' = Append(log, "return")
    /\ pc' = Exited
    /\ UNCHANGED <<argc, running, apc, app, handlers, windows, status, nEmit, nActivate,
                   useAfterFree, userActed>>
    /\ UNCHANGED <<cfgVars, verVars, APPLICATION_VERSION>>

main_return ==
    /\ At("return")
    /\ exitCode' = status
    /\ log' = Append(log, "return")
    /\ pc' = Exited
    /\ UNCHANGED <<argc, running, apc, app, handlers, windows, status, nEmit, nActivate,
                   useAfterFree, userActed>>
    /\ UNCHANGED <<cfgVars, verVars, APPLICATION_VERSION>>

(***************************************************************************)
(* Specification of the GTK application                                    *)
(***************************************************************************)
InitGui ==
    /\ CONFIGURATION_HAS_MONOTONIC_CLOCK = 1
    /\ APPLICATION_VERSION \in Versions
    /\ CfgIdle
    /\ VerIdle
    /\ argc \in 1..MaxArgc
    /\ pc = 1
    /\ running = FALSE
    /\ apc = 0
    /\ app = [id |-> "", flags |-> 0, ref_count |-> 0]
    /\ handlers = {}
    /\ windows = <<>>
    /\ status = None
    /\ exitCode = None
    /\ log = <<>>
    /\ nEmit = 0
    /\ nActivate = 0
    /\ useAfterFree = FALSE
    /\ userActed = FALSE

NextGui ==
    \/ main_application_new
    \/ main_signal_connect
    \/ main_application_run_call
    \/ EmitActivate
    \/ activate_set_title
    \/ activate_set_default_size
    \/ activate_show_all
    \/ \E i \in 1..Len(windows) : UserClose(i)
    \/ main_application_run_return
    \/ main_object_unref
    \/ main_return

SpecGui == InitGui /\ [][NextGui]_vars

(***************************************************************************)
(* Properties                                                              *)
(***************************************************************************)
IsPrefix(s, t) == Len(s) <= Len(t) /\ \A i \in 1..Len(s) : s[i] = t[i]

ExpectedConfigLine ==
    IF CONFIGURATION_HAS_MONOTONIC_CLOCK = 1
    THEN "have a monotonic clock!\n"
    ELSE "what a pitty: have no monotonic clock\n"

\* C1: the configuration-flag program writes exactly one line to standard
\* output, "have a monotonic clock!" when the flag is true and
\* "what a pitty: have no monotonic clock" when it is false, each followed by
\* one line break, writes nothing else, and exits with code 0.
C1_ConfigOutput ==
    \A r \in Runs :
        /\ cfgPc[r] = "printf" => cfgStdout[r] = ""
        /\ cfgPc[r] # "printf" => cfgStdout[r] = ExpectedConfigLine
        /\ cfgPc[r] = "exited" => cfgExit[r] = Some(0)
        /\ cfgPc[r] # "exited" => cfgExit[r] = None

C1_Witness ==
    \E r \in Runs :
        /\ cfgPc[r] = "exited"
        /\ CONFIGURATION_HAS_MONOTONIC_CLOCK = 0
        /\ cfgStdout[r] = "what a pitty: have no monotonic clock\n"

\* C2: the version print program writes exactly "version: " followed by the
\* version constant and one line break ("version: 1.2.3" plus a line break for
\* version "1.2.3"), and exits with code 0.
C2_VersionOutput ==
    \A r \in Runs :
        /\ verPc[r] = "printf" => verStdout[r] = ""
        /\ verPc[r] # "printf" =>
              /\ verStdout[r] = ("version: " \o APPLICATION_VERSION) \o "\n"
              /\ APPLICATION_VERSION = "1.2.3" => verStdout[r] = "version: 1.2.3\n"
        /\ verPc[r] = "exited" => verExit[r] = Some(0)
        /\ verPc[r] # "exited" => verExit[r] = None

C2_Witness ==
    \E r \in Runs :
        /\ verPc[r] = "exited"
        /\ APPLICATION_VERSION = "1.2.3"
        /\ verStdout[r] = "version: 1.2.3\n"

\* C3 as stated: activate is invoked exactly once per run of the GUI program,
\* however often the toolkit emits "activate".
C3_ActivateExactlyOnce == (pc = Exited /\ nEmit >= 1) => nActivate = 1

\* C3 as amended: activate is invoked exactly once for each emission of
\* "activate" during the run, so the number of invocations in a run equals the
\* number of emissions (none, one or several).
C3_ActivateOncePerEmission == nActivate = nEmit

C3_Witness == pc = Exited /\ nEmit = 2 /\ nActivate = 2

ExpectedWindow(w) ==
    /\ w.application = "org.gtk.example"
    /\ w.title = "Application " \o APPLICATION_VERSION
    /\ APPLICATION_VERSION = "1.2.3" => w.title = "Application 1.2.3"
    /\ w.width = 200
    /\ w.height = 200

\* C4 as stated: once activation has been signalled and handled, and before any
\* user interaction, exactly one window exists; it belongs to application
\* "org.gtk.example", is titled "Application " + version, has default size
\* 200x200 and is visible.
C4_ExactlyOneWindow ==
    (running /\ apc = 0 /\ nEmit >= 1 /\ ~userActed) =>
        /\ Len(windows) = 1
        /\ ExpectedWindow(windows[1])
        /\ windows[1].visible

\* C4 as amended: while the run call is in progress, between callbacks and
\* before any user interaction, one window exists per activation signalled
\* (exactly one when activation was signalled once); each belongs to
\* application "org.gtk.example", is titled "Application " + version, has
\* default size 200x200 and is visible.
C4_OneWindowPerActivation ==
    (running /\ apc = 0 /\ ~userActed) =>
        /\ Len(windows) = nEmit
        /\ \A i \in 1..Len(windows) :
              ExpectedWindow(windows[i]) /\ windows[i].visible /\ ~windows[i].destroyed

C4_Witness ==
    /\ running /\ apc = 0 /\ ~userActed
    /\ nEmit = 1
    /\ Len(windows) = 1
    /\ APPLICATION_VERSION = "1.2.3"
    /\ windows[1].title = "Application 1.2.3"
    /\ windows[1].visible

C6_MainReturnsZero == pc = Exited => exitCode = Some(0)

MainOrder ==
    <<"gtk_application_new", "g_signal_connect", "g_application_run:call",
      "g_application_run:return", "g_object_unref", "return">>

Called(step) == \E i \in 1..Len(log) : log[i] = step

\* C8: main creates the application object, connects the activate handler,
\* calls the run loop, releases the application object and returns, in this
\* order and each exactly once; the handler is connected whenever the run call
\* is in progress, the object is released only after the run call has returned,
\* on every path, and is never used after its release.
C8_MainOrder ==
    /\ IsPrefix(log, MainOrder)
    /\ pc = Exited => log = MainOrder
    /\ running => <<"activate", "activate">> \in handlers
    /\ Called("g_object_unref") <=> (Called("gtk_application_new") /\ app.ref_count = 0)
    /\ Called("g_object_unref") => (Called("g_application_run:return") /\ ~running)
    /\ ~useAfterFree

C8_Witness ==
    /\ pc = Exited
    /\ status \notin {None, Some(0)}
    /\ app.ref_count = 0
    /\ nActivate >= 1

\* C9: no window of the program is visible unless its title is
\* "Application " + version and its default size is 200x200.
C9_VisibleOnlyWhenConfigured ==
    \A i \in 1..Len(windows) : windows[i].visible => ExpectedWindow(windows[i])

C9_Witness == apc = 0 /\ \E i \in 1..Len(windows) : windows[i].visible

\* C10: the number of windows the program has created equals the number of
\* invocations of activate; no window exists before the first activation
\* signal, nor ever if the run call returns without one.
C10_WindowsEqualInvocations ==
    /\ Len(windows) = nActivate
    /\ nEmit = 0 => windows = <<>>

C10_Witness == pc = Exited /\ nActivate = 2 /\ Len(windows) = 2

====
